---- MODULE Spec2Model ----
(***************************************************************************)
(* Model of transformer/scripts/manual_extract.py: the function            *)
(* extract_columns_from_sql and the script that calls it on two samples.   *)
(*                                                                         *)
(* A Python str is a sequence of characters; a character is a one-letter   *)
(* TLA+ string, the backtick excepted, which is written BT.  "\n" is the   *)
(* newline character and "\\" the backslash, so the two-character escape    *)
(* that line 9 normalises is the pair "\\", "n".                            *)
(***************************************************************************)
EXTENDS Integers, Sequences, FiniteSets

VARIABLES
    pc,               \* "address", "customer": the script's next call; "done": the
                      \* script has run; "returned": a further call has returned
    sql_content,      \* argument of the latest call
    content,          \* local: the normalised text
    match,            \* local: the match object of re.search, or None
    parts,            \* local: columns_section.split(',')
    result,           \* value returned by the latest call
    columns,          \* the module-level name `columns` the script assigns
    stdout,           \* what the script printed
    stmt              \* the statement the argument was written from

vars == <<pc, sql_content, content, match, parts, result, columns, stdout, stmt>>

None == [none |-> TRUE]

\* The backtick character.
BT == "BACKTICK"

-----------------------------------------------------------------------------
(* Characters                                                              *)

\* str.upper() on the ASCII letters; every other character is left alone.
UPPER ==
    [a |-> "A", b |-> "B", c |-> "C", d |-> "D", e |-> "E", f |-> "F", g |-> "G",
     h |-> "H", i |-> "I", j |-> "J", k |-> "K", l |-> "L", m |-> "M", n |-> "N",
     o |-> "O", p |-> "P", q |-> "Q", r |-> "R", s |-> "S", t |-> "T", u |-> "U",
     v |-> "V", w |-> "W", x |-> "X", y |-> "Y", z |-> "Z"]

upper_char(ch) == IF ch \in DOMAIN UPPER THEN UPPER[ch] ELSE ch

\* part.upper()
upper(s) == [i \in 1..Len(s) |-> upper_char(s[i])]

\* What \s matches and str.strip() removes.  Form feed, vertical tab and the
\* other Unicode spaces are white space too; no text here holds them.
isspace(ch) == ch \in {" ", "\n", "\t", "\r"}

\* re.IGNORECASE: a pattern letter matches either case of itself.
ignorecase_eq(ch, p) == upper_char(ch) = upper_char(p)

Min(S) == CHOOSE x \in S : \A y \in S : x <= y
Max(S) == CHOOSE x \in S : \A y \in S : x >= y

-----------------------------------------------------------------------------
(* Line 9: content = sql_content.replace('\\n', '\n')                      *)

\* As replace, but like replace('\\n', '\n', 1): the first occurrence only.
replace_first(s) ==
    IF \E i \in 1..(Len(s)-1) : s[i] = "\\" /\ s[i+1] = "n"
    THEN LET i == CHOOSE q \in 1..(Len(s)-1) :
                      /\ s[q] = "\\" /\ s[q+1] = "n"
                      /\ \A j \in 1..(q-1) : ~(s[j] = "\\" /\ s[j+1] = "n")
         IN  SubSeq(s, 1, i-1) \o <<"\n">> \o SubSeq(s, i+2, Len(s))
    ELSE s

\* As replace, but with the normalisation left out.
replace_nothing(s) == s

\* str.replace scans left to right and replaces every non-overlapping
\* occurrence of backslash + n; the 'n' of a replaced pair is dropped.
replace(s) ==
    LET esc(i)   == i >= 1 /\ i < Len(s) /\ s[i] = "\\" /\ s[i+1] = "n"
        replaced == [i \in 1..Len(s) |->
                        IF esc(i) THEN "\n"
                        ELSE IF esc(i-1) THEN ""
                        ELSE s[i]]
    IN  SelectSeq(replaced, LAMBDA ch : ch # "")

-----------------------------------------------------------------------------
(* Line 12: re.search(r'CREATE TABLE\s+`([^`]+)`\s*\((.+?)\)\s*ENGINE',    *)
(*                    content, re.DOTALL | re.IGNORECASE)                  *)

CREATE_TABLE == <<"C","R","E","A","T","E"," ","T","A","B","L","E">>
ENGINE       == <<"E","N","G","I","N","E">>

\* The literal `lit` matches at position i of c, ignoring case.
literal_at(c, i, lit) ==
    /\ i >= 1
    /\ i + Len(lit) - 1 <= Len(c)
    /\ \A k \in 1..Len(lit) : ignorecase_eq(c[i+k-1], lit[k])

\* Greedy \s* from position i: the position of the first character at or
\* after i that is not white space (Len(c)+1 when there is none).
skip_spaces(c, i) ==
    CHOOSE q \in i..(Len(c)+1) :
        /\ q = Len(c)+1 \/ ~isspace(c[q])
        /\ \A j \in i..(q-1) : isspace(c[j])

\* `([^`]+)` at position i: the position of the closing backtick, or 0.
\* The class [^`] cannot run past a backtick, so the name ends at the next
\* one and must hold at least one character.
quoted_end(c, i) ==
    IF i >= 1 /\ i <= Len(c) /\ c[i] = BT
    THEN IF \E q \in (i+1)..Len(c) : c[q] = BT
         THEN LET t == CHOOSE q \in (i+1)..Len(c) :
                           c[q] = BT /\ \A j \in (i+1)..(q-1) : c[j] # BT
              IN  IF t > i+1 THEN t ELSE 0
         ELSE 0
    ELSE 0

\* CREATE TABLE\s+`([^`]+)`\s*\( tried at position i: the position of the
\* opening parenthesis, or 0 when this prefix of the pattern fails at i.
table_head(c, i) ==
    IF ~literal_at(c, i, CREATE_TABLE) THEN 0
    ELSE LET s1 == i + Len(CREATE_TABLE)
             t1 == skip_spaces(c, s1)
             t2 == quoted_end(c, t1)
         IN  IF t1 = s1 \/ t2 = 0 THEN 0
             ELSE LET o == skip_spaces(c, t2+1)
                  IN  IF o <= Len(c) /\ c[o] = "(" THEN o ELSE 0

\* As close_engine, but with the pattern ending at the parenthesis.
close_engine_any(c, e) ==
    /\ e >= 1 /\ e <= Len(c)
    /\ c[e] = ")"

\* \)\s*ENGINE at position e.
close_engine(c, e) ==
    /\ e >= 1 /\ e <= Len(c)
    /\ c[e] = ")"
    /\ literal_at(c, skip_spaces(c, e+1), ENGINE)

\* As body_close, but for a greedy (.+): the last such parenthesis.
body_close_greedy(c, o) ==
    LET ends == {e \in (o+2)..Len(c) : close_engine(c, e)}
    IN  IF ends = {} THEN 0 ELSE Max(ends)

\* (.+?) followed by \)\s*ENGINE, the body starting right after the opening
\* parenthesis o: the lazy quantifier takes one character and then extends
\* only until the rest of the pattern matches, so the body ends before the
\* first such parenthesis at least one character into it.  0 when none.
body_close(c, o) ==
    LET ends == {e \in (o+2)..Len(c) : close_engine(c, e)}
    IN  IF ends = {} THEN 0 ELSE Min(ends)

\* re.search: the leftmost position at which the whole pattern matches.
re_search(c) ==
    LET starts == {i \in 1..Len(c) :
                      table_head(c, i) # 0 /\ body_close(c, table_head(c, i)) # 0}
    IN  IF starts = {} THEN None
        ELSE LET i  == Min(starts)
                 o  == table_head(c, i)
                 e  == body_close(c, o)
                 t1 == skip_spaces(c, i + Len(CREATE_TABLE))
             IN  [start  |-> i,
                  group1 |-> SubSeq(c, t1+1, quoted_end(c, t1)-1),
                  open   |-> o,
                  close  |-> e,
                  group2 |-> SubSeq(c, o+1, e-1)]

-----------------------------------------------------------------------------
(* Lines 16-30: split, filter, extract                                     *)

\* As split, but like split(',', 1): cut at the first comma only.
split_once(s) ==
    IF \A i \in 1..Len(s) : s[i] # "," THEN <<s>>
    ELSE LET i == CHOOSE q \in 1..Len(s) :
                      s[q] = "," /\ \A j \in 1..(q-1) : s[j] # ","
         IN  <<SubSeq(s, 1, i-1), SubSeq(s, i+1, Len(s))>>

\* columns_section.split(',')
RECURSIVE split(_)
split(s) ==
    IF \A i \in 1..Len(s) : s[i] # "," THEN <<s>>
    ELSE LET i == CHOOSE q \in 1..Len(s) :
                      s[q] = "," /\ \A j \in 1..(q-1) : s[j] # ","
         IN  <<SubSeq(s, 1, i-1)>> \o split(SubSeq(s, i+1, Len(s)))

\* part.strip()
strip(s) ==
    LET solid == {i \in 1..Len(s) : ~isspace(s[i])}
    IN  IF solid = {} THEN <<>> ELSE SubSeq(s, Min(solid), Max(solid))

\* keyword in text
contains(text, keyword) ==
    \E i \in 1..(Len(text) - Len(keyword) + 1) :
        SubSeq(text, i, i + Len(keyword) - 1) = keyword

\* Line 24: the list of keywords.
keywords ==
    { <<"P","R","I","M","A","R","Y"," ","K","E","Y">>, <<"U","N","I","Q","U","E"," ","K","E","Y">>, <<"K","E","Y"," ">>, <<"I","N","D","E","X"," ">>, <<"C","O","N","S","T","R","A","I","N","T">>, <<"F","O","R","E","I","G","N"," ","K","E","Y">> }

\* As is_constraint, but without upper(): the keywords in upper case only.
is_constraint_cased(part) == \E keyword \in keywords : contains(part, keyword)

\* Line 24: any(keyword in part.upper() for keyword in [...])
is_constraint(part) == \E keyword \in keywords : contains(upper(part), keyword)

\* Line 28: re.match(r'^\s*`([^`]+)`', part): group(1), or None.
re_match(part) ==
    LET t1 == skip_spaces(part, 1)
        t2 == quoted_end(part, t1)
    IN  IF t2 = 0 THEN None ELSE [group1 |-> SubSeq(part, t1+1, t2-1)]

\* As for_part, but appending a name only when the list does not hold it yet.
RECURSIVE for_part_dedup(_, _, _)
for_part_dedup(ps, k, cols) ==
    IF k > Len(ps) THEN cols
    ELSE LET part      == strip(ps[k])
             col_match == re_match(part)
         IN  IF is_constraint(part) THEN for_part_dedup(ps, k+1, cols)
             ELSE IF col_match # None
                     /\ \A j \in 1..Len(cols) : cols[j] # col_match.group1
                  THEN for_part_dedup(ps, k+1, Append(cols, col_match.group1))
                  ELSE for_part_dedup(ps, k+1, cols)

\* Lines 21-30: the loop over parts, from part k on, `cols` being the list
\* built so far.
RECURSIVE for_part(_, _, _)
for_part(ps, k, cols) ==
    IF k > Len(ps) THEN cols
    ELSE LET part      == strip(ps[k])
             col_match == re_match(part)
         IN  IF is_constraint(part) THEN for_part(ps, k+1, cols)
             ELSE IF col_match # None
                  THEN for_part(ps, k+1, Append(cols, col_match.group1))
                  ELSE for_part(ps, k+1, cols)

\* The value one call returns, lines 6-32.
extract_columns_from_sql(sql) ==
    LET m == re_search(replace(sql))
    IN  IF m = None THEN <<>> ELSE for_part(split(m.group2), 1, <<>>)

-----------------------------------------------------------------------------
(* Lines 35-44: the script's two samples                                   *)

address_sql ==
  <<"C","R","E","A","T","E"," ","T","A","B","L","E"," ",BT,"A","d","d","r","e","s","s",BT," ","(",
    "\\","n"," "," ",BT,"a","d","d","r","e","s","s","I","d",BT," ","i","n","t"," ","u","n","s","i",
    "g","n","e","d"," ","N","O","T"," ","N","U","L","L"," ","A","U","T","O","_","I","N","C","R","E",
    "M","E","N","T",",","\\","n"," "," ",BT,"l","i","n","e","1",BT," ","v","a","r","c","h","a","r",
    "(","1","2","0",")"," ","C","H","A","R","A","C","T","E","R"," ","S","E","T"," ","u","t","f","8",
    "m","b","4"," ","C","O","L","L","A","T","E"," ","u","t","f","8","m","b","4","_","u","n","i","c",
    "o","d","e","_","c","i"," ","D","E","F","A","U","L","T"," ","N","U","L","L",",","\\","n"," ",
    " ",BT,"l","i","n","e","2",BT," ","v","a","r","c","h","a","r","(","1","2","0",")"," ","C","H",
    "A","R","A","C","T","E","R"," ","S","E","T"," ","u","t","f","8","m","b","4"," ","C","O","L","L",
    "A","T","E"," ","u","t","f","8","m","b","4","_","u","n","i","c","o","d","e","_","c","i"," ","D",
    "E","F","A","U","L","T"," ","N","U","L","L",",","\\","n"," "," ",BT,"c","i","t","y",BT," ","v",
    "a","r","c","h","a","r","(","1","2","0",")"," ","C","H","A","R","A","C","T","E","R"," ","S","E",
    "T"," ","u","t","f","8","m","b","4"," ","C","O","L","L","A","T","E"," ","u","t","f","8","m","b",
    "4","_","u","n","i","c","o","d","e","_","c","i"," ","D","E","F","A","U","L","T"," ","N","U","L",
    "L",",","\\","n"," "," ",BT,"s","t","a","t","e",BT," ","c","h","a","r","(","3",")"," ","C","H",
    "A","R","A","C","T","E","R"," ","S","E","T"," ","u","t","f","8","m","b","4"," ","C","O","L","L",
    "A","T","E"," ","u","t","f","8","m","b","4","_","u","n","i","c","o","d","e","_","c","i"," ","D",
    "E","F","A","U","L","T"," ","N","U","L","L",",","\\","n"," "," ",BT,"c","o","u","n","t","r","y",
    BT," ","c","h","a","r","(","3",")"," ","C","H","A","R","A","C","T","E","R"," ","S","E","T"," ",
    "u","t","f","8","m","b","4"," ","C","O","L","L","A","T","E"," ","u","t","f","8","m","b","4","_",
    "u","n","i","c","o","d","e","_","c","i"," ","D","E","F","A","U","L","T"," ","N","U","L","L",",",
    "\\","n"," "," ",BT,"p","o","s","t","a","l","C","o","d","e",BT," ","v","a","r","c","h","a","r",
    "(","1","5",")"," ","C","H","A","R","A","C","T","E","R"," ","S","E","T"," ","u","t","f","8","m",
    "b","4"," ","C","O","L","L","A","T","E"," ","u","t","f","8","m","b","4","_","u","n","i","c","o",
    "d","e","_","c","i"," ","D","E","F","A","U","L","T"," ","N","U","L","L",",","\\","n"," "," ",BT,
    "c","r","e","a","t","e","d",BT," ","d","a","t","e","t","i","m","e"," ","D","E","F","A","U","L",
    "T"," ","N","U","L","L",",","\\","n"," "," ",BT,"m","o","d","i","f","i","e","d",BT," ","d","a",
    "t","e","t","i","m","e"," ","D","E","F","A","U","L","T"," ","N","U","L","L",",","\\","n"," ",
    " ","P","R","I","M","A","R","Y"," ","K","E","Y"," ","(",BT,"a","d","d","r","e","s","s","I","d",
    BT,")","\\","n",")"," ","E","N","G","I","N","E","=","I","n","n","o","D","B"," ","A","U","T","O",
    "_","I","N","C","R","E","M","E","N","T","=","6","6","6","9"," ","D","E","F","A","U","L","T"," ",
    "C","H","A","R","S","E","T","=","u","t","f","8","m","b","4"," ","C","O","L","L","A","T","E","=",
    "u","t","f","8","m","b","4","_","u","n","i","c","o","d","e","_","c","i"," ","C","O","M","M","E",
    "N","T","=","'","E","n","t","i","t","y"," ","E","m","p","l","o","y","e","e"," ","a","d","d","r",
    "e","s","s","e","s","."," "," ","A","l","l"," ","g","e","n","e","r","i","c"," ","a","d","d","r",
    "e","s","s","e","s"," ","m","o","v","i","n","g"," ","f","o","r","w","a","r","d","s",".","'">>

customer_sql ==
  <<"C","R","E","A","T","E"," ","T","A","B","L","E"," ",BT,"C","u","s","t","o","m","e","r",BT," ",
    "(","\\","n"," "," ",BT,"c","u","s","t","o","m","e","r","I","d",BT," ","i","n","t"," ","u","n",
    "s","i","g","n","e","d"," ","N","O","T"," ","N","U","L","L"," ","A","U","T","O","_","I","N","C",
    "R","E","M","E","N","T",",","\\","n"," "," ",BT,"e","n","t","i","t","y","I","d",BT," ","i","n",
    "t"," ","u","n","s","i","g","n","e","d"," ","N","O","T"," ","N","U","L","L",",","\\","n"," ",
    " ",BT,"e","n","t","i","t","y","L","o","c","a","t","i","o","n","I","d",BT," ","i","n","t"," ",
    "u","n","s","i","g","n","e","d"," ","D","E","F","A","U","L","T"," ","N","U","L","L",",","\\",
    "n"," "," ",BT,"a","c","t","i","v","e",BT," ","t","i","n","y","i","n","t"," ","u","n","s","i",
    "g","n","e","d"," ","N","O","T"," ","N","U","L","L"," ","D","E","F","A","U","L","T"," ","'","1",
    "'",",","\\","n"," "," ",BT,"c","o","d","e",BT," ","v","a","r","c","h","a","r","(","1","0",")",
    " ","C","H","A","R","A","C","T","E","R"," ","S","E","T"," ","u","t","f","8","m","b","4"," ","C",
    "O","L","L","A","T","E"," ","u","t","f","8","m","b","4","_","u","n","i","c","o","d","e","_","c",
    "i"," ","D","E","F","A","U","L","T"," ","N","U","L","L",",","\\","n"," "," ",BT,"s","e","r","v",
    "i","c","e","R","e","q","u","e","s","t","C","o","d","e",BT," ","v","a","r","c","h","a","r","(",
    "1","0",")"," ","C","H","A","R","A","C","T","E","R"," ","S","E","T"," ","u","t","f","8","m","b",
    "4"," ","C","O","L","L","A","T","E"," ","u","t","f","8","m","b","4","_","u","n","i","c","o","d",
    "e","_","c","i"," ","D","E","F","A","U","L","T"," ","N","U","L","L",",","\\","n"," "," ",BT,"s",
    "t","a","t","u","s",BT," ","v","a","r","c","h","a","r","(","2","5",")"," ","C","H","A","R","A",
    "C","T","E","R"," ","S","E","T"," ","u","t","f","8","m","b","4"," ","C","O","L","L","A","T","E",
    " ","u","t","f","8","m","b","4","_","u","n","i","c","o","d","e","_","c","i"," ","D","E","F","A",
    "U","L","T"," ","N","U","L","L",",","\\","n"," "," ",BT,"c","r","e","a","t","e","d","B","y","E",
    "n","t","i","t","y","E","m","p","l","o","y","e","e","I","d",BT," ","i","n","t"," ","u","n","s",
    "i","g","n","e","d"," ","D","E","F","A","U","L","T"," ","N","U","L","L",",","\\","n"," "," ",BT,
    "c","r","e","a","t","e","d","B","y","I","p","A","d","d","r","e","s","s",BT," ","v","a","r","c",
    "h","a","r","(","2","5",")"," ","C","H","A","R","A","C","T","E","R"," ","S","E","T"," ","u","t",
    "f","8","m","b","4"," ","C","O","L","L","A","T","E"," ","u","t","f","8","m","b","4","_","u","n",
    "i","c","o","d","e","_","c","i"," ","D","E","F","A","U","L","T"," ","N","U","L","L",",","\\",
    "n"," "," ",BT,"c","r","e","a","t","e","d",BT," ","d","a","t","e","t","i","m","e"," ","D","E",
    "F","A","U","L","T"," ","N","U","L","L",",","\\","n"," "," ",BT,"m","o","d","i","f","i","e","d",
    BT," ","d","a","t","e","t","i","m","e"," ","D","E","F","A","U","L","T"," ","N","U","L","L",",",
    "\\","n"," "," ","P","R","I","M","A","R","Y"," ","K","E","Y"," ","(",BT,"c","u","s","t","o","m",
    "e","r","I","d",BT,")",",","\\","n"," "," ","U","N","I","Q","U","E"," ","K","E","Y"," ",BT,"C",
    "u","s","t","o","m","e","r","_","p","a","y","r","i","x","I","d","_","I","D","X",BT," ","(",BT,
    "p","a","y","r","i","x","I","d",BT,")"," ","U","S","I","N","G"," ","B","T","R","E","E",",","\\",
    "n"," "," ","K","E","Y"," ",BT,"e","n","t","i","t","y","I","d",BT," ","(",BT,"e","n","t","i",
    "t","y","I","d",BT,")","\\","n",")"," ","E","N","G","I","N","E","=","I","n","n","o","D","B"," ",
    "A","U","T","O","_","I","N","C","R","E","M","E","N","T","=","3","1","9","9","3"," ","D","E","F",
    "A","U","L","T"," ","C","H","A","R","S","E","T","=","u","t","f","8","m","b","4"," ","C","O","L",
    "L","A","T","E","=","u","t","f","8","m","b","4","_","u","n","i","c","o","d","e","_","c","i">>

-----------------------------------------------------------------------------
(* Arguments of further calls: CREATE TABLE statements written as a head,  *)
(* a list of comma-separated definitions and a tail.                       *)

MaxDefs == 2

\* Up to and including the opening parenthesis.  wf: the head has the
\* expected shape (CREATE TABLE, a backtick-quoted name, a parenthesis).
Heads == <<
    [wf |-> TRUE,  text |-> <<"C","R","E","A","T","E"," ","T","A","B","L","E"," ",BT,"t",BT," ","(">>],
    [wf |-> TRUE,  text |-> <<"c","r","e","a","t","e"," ","t","a","b","l","e","\n",BT,"t",BT,"(">>],
    [wf |-> FALSE, text |-> <<"C","R","E","A","T","E"," ","T","A","B","L","E"," ","t"," ","(">>],
    [wf |-> FALSE, text |-> <<"T","A","B","L","E"," ",BT,"t",BT," ","(">>],
    [wf |-> FALSE, text |-> <<"C","R","E","A","T","E"," ","T","A","B","L","E"," ",BT,"u",BT," ","C","R","E","A","T","E"," ",
          "T","A","B","L","E"," ",BT,"t",BT," ","(">>] >>

\* From the closing parenthesis on.
Tails == <<
    [wf |-> TRUE,  text |-> <<")"," ","E","N","G","I","N","E","=","I","n","n","o","D","B">>],
    [wf |-> TRUE,  text |-> <<"\n",")","\n","e","n","g","i","n","e">>],
    [wf |-> FALSE, text |-> <<")"," ","D","E","F","A","U","L","T"," ","C","H","A","R","S","E","T","=","x">>],
    [wf |-> FALSE, text |-> <<")"," ","E","N","G","I","N","E"," ","x",")"," ","E","N","G","I","N","E">>],
    [wf |-> FALSE, text |-> <<" ","E","N","G","I","N","E">>] >>

\* kind "column": a column definition, `name` its column; kind "key": a
\* PRIMARY KEY or UNIQUE KEY clause, kind "index": another table-level
\* clause, `refs` the columns the clause lists; kind "other": neither.
Defs == <<
    [kind |-> "column", name |-> <<"a">>, refs |-> {},
     text |-> <<BT,"a",BT," ","i","n","t">>],
    [kind |-> "column", name |-> <<"b">>, refs |-> {},
     text |-> <<"\n"," "," ",BT,"b",BT," ","c","h","a","r","(","3",")">>],
    [kind |-> "column", name |-> <<"c">>, refs |-> {},
     text |-> <<"\\","n",BT,"c",BT," ","d","e","c","i","m","a","l","(","1","0",",","2",")">>],
    [kind |-> "column", name |-> <<"c","o","n","s","t","r","a","i","n","t","I","d">>, refs |-> {},
     text |-> <<BT,"c","o","n","s","t","r","a","i","n","t","I","d",BT," ","i","n","t">>],
    [kind |-> "key",    name |-> <<>>, refs |-> {<<"a">>},
     text |-> <<"P","R","I","M","A","R","Y"," ","K","E","Y"," ","(",BT,"a",BT,")">>],
    [kind |-> "key",    name |-> <<>>, refs |-> {<<"a">>, <<"b">>},
     text |-> <<"P","R","I","M","A","R","Y"," ","K","E","Y"," ","(",BT,"a",BT,",",BT,"b",BT,")">>],
    [kind |-> "key",    name |-> <<>>, refs |-> {<<"b">>},
     text |-> <<"u","n","i","q","u","e"," ","k","e","y"," ",BT,"u",BT," ","(",BT,"b",BT,")"," ","U","S","I","N",
          "G"," ","B","T","R","E","E">>],
    [kind |-> "index",  name |-> <<>>, refs |-> {<<"a">>},
     text |-> <<"i","n","d","e","x"," ",BT,"i",BT," ","(",BT,"a",BT,")">>],
    [kind |-> "other",  name |-> <<>>, refs |-> {},
     text |-> <<"x"," ","i","n","t">>],
    [kind |-> "other",  name |-> <<>>, refs |-> {},
     text |-> <<" ",BT,"a",BT," ","k","e","y"," ">>],
    [kind |-> "other",  name |-> <<>>, refs |-> {},
     text |-> <<BT,"d">>] >>

DefLists == UNION {[1..n -> DOMAIN Defs] : n \in 0..MaxDefs}

Statements == [head : DOMAIN Heads, defs : DefLists, tail : DOMAIN Tails]

RECURSIVE join(_, _)
join(ds, k) ==
    IF k > Len(ds) THEN <<>>
    ELSE (IF k = 1 THEN <<>> ELSE <<",">>) \o Defs[ds[k]].text \o join(ds, k+1)

\* The text of a statement.
text_of(st) == Heads[st.head].text \o join(st.defs, 1) \o Tails[st.tail].text

-----------------------------------------------------------------------------
(* The state machine                                                       *)

Init ==
    /\ pc = "address"
    /\ sql_content = None
    /\ content = None
    /\ match = None
    /\ parts = None
    /\ result = None
    /\ columns = None
    /\ stdout = <<>>
    /\ stmt = None

\* One call of extract_columns_from_sql(sql), lines 6-32, its locals kept:
\* when the search fails, line 14 returns [] and no part is ever split.
call(sql) ==
    /\ sql_content' = sql
    /\ content' = replace(sql)
    /\ match' = re_search(content')
    /\ parts' = IF match' = None THEN <<>> ELSE split(match'.group2)
    /\ result' = IF match' = None THEN <<>> ELSE for_part(parts', 1, <<>>)

\* Lines 37-38.
ScriptAddress ==
    /\ pc = "address"
    /\ call(address_sql)
    /\ columns' = result'
    /\ stdout' = Append(stdout, <<"Address columns:", columns'>>)
    /\ pc' = "customer"
    /\ stmt' = None

\* Lines 43-44; columns[:10] is the first ten entries, or all when fewer.
ScriptCustomer ==
    /\ pc = "customer"
    /\ call(customer_sql)
    /\ columns' = result'
    /\ stdout' = Append(stdout, <<"Customer columns (sample):",
                                  SubSeq(columns', 1, Min({10, Len(columns')}))>>)
    /\ pc' = "done"
    /\ stmt' = None

\* A call of the function, the script having run, on the text of any
\* statement; the module-level names are not touched.
Call ==
    /\ pc = "done"
    /\ \E st \in Statements :
          /\ call(text_of(st))
          /\ stmt' = st
    /\ pc' = "returned"
    /\ UNCHANGED <<columns, stdout>>

Next ==
    \/ ScriptAddress
    \/ ScriptCustomer
    \/ Call

Spec == Init /\ [][Next]_vars

-----------------------------------------------------------------------------
(* Vocabulary of the properties, stated without the operators above        *)

\* A call has returned, so the locals and the result are those of a call.
Returned == pc # "address"

\* c reads `word` at position i, whatever the letter case.
Reads(c, i, word) ==
    /\ i >= 1
    /\ i + Len(word) - 1 <= Len(c)
    /\ \A j \in 1..Len(word) : upper_char(c[i+j-1]) = word[j]

\* Positions i..j of c hold white space only (none when j < i).
Blank(c, i, j) == \A q \in i..j : isspace(c[q])

\* Position e holds a closing parenthesis followed by optional white space
\* and ENGINE.
ClosesBeforeEngine(c, e) ==
    /\ c[e] = ")"
    /\ \E g \in (e+1)..Len(c) : Blank(c, e+1, g-1) /\ Reads(c, g, <<"E","N","G","I","N","E">>)

CloseEngines(c) == {e \in 1..Len(c) : ClosesBeforeEngine(c, e)}

\* c holds a span CREATE TABLE, white space, a backtick-quoted name, optional
\* white space, "(", a body of at least one character, ")", optional white
\* space, ENGINE.
HasSpan(c) ==
    \E i \in 1..Len(c) :
        /\ Reads(c, i, <<"C","R","E","A","T","E"," ","T","A","B","L","E">>)
        /\ \E t1 \in (i+13)..Len(c) :
            /\ Blank(c, i+12, t1-1)
            /\ c[t1] = BT
            /\ \E t2 \in (t1+2)..Len(c) :
                /\ c[t2] = BT
                /\ \A q \in (t1+1)..(t2-1) : c[q] # BT
                /\ \E o \in (t2+1)..Len(c) :
                    /\ Blank(c, t2+1, o-1)
                    /\ c[o] = "("
                    /\ \E e \in (o+2)..Len(c) : ClosesBeforeEngine(c, e)

\* The statement has the expected shape: CREATE TABLE, a backtick-quoted
\* table name, a parenthesised body of column definitions and table-level
\* clauses, ENGINE.
WellFormed(st) ==
    /\ Heads[st.head].wf
    /\ Tails[st.tail].wf
    /\ Len(st.defs) >= 1
    /\ \A k \in 1..Len(st.defs) : Defs[st.defs[k]].kind \in {"column", "key", "index"}

\* The names of the statement's column definitions, in source order.
ColumnNames(st) ==
    LET cols == SelectSeq(st.defs, LAMBDA d : Defs[d].kind = "column")
    IN  [k \in 1..Len(cols) |-> Defs[cols[k]].name]

\* How many entries of the list are x.
Count(list, x) == Cardinality({k \in 1..Len(list) : list[k] = x})

\* The columns the statement's PRIMARY KEY and UNIQUE KEY clauses list.
KeyColumns(st) ==
    UNION {Defs[st.defs[k]].refs : k \in {j \in 1..Len(st.defs) : Defs[st.defs[j]].kind = "key"}}

\* The fragment without its leading and trailing white space.
RECURSIVE Trim(_)
Trim(p) ==
    IF p = <<>> THEN p
    ELSE IF isspace(p[1]) THEN Trim(Tail(p))
    ELSE IF isspace(p[Len(p)]) THEN Trim(SubSeq(p, 1, Len(p)-1))
    ELSE p

ClauseWords ==
    { <<"P","R","I","M","A","R","Y"," ","K","E","Y">>, <<"U","N","I","Q","U","E"," ","K","E","Y">>, <<"K","E","Y"," ">>, <<"I","N","D","E","X"," ">>, <<"C","O","N","S","T","R","A","I","N","T">>, <<"F","O","R","E","I","G","N"," ","K","E","Y">> }

\* The upper-cased text holds one of the clause words somewhere.
HasClauseWord(t) == \E w \in ClauseWords : \E i \in 1..Len(t) : Reads(t, i, w)

\* What one fragment contributes: nothing, or its leading quoted identifier.
Entry(p) ==
    LET t == Trim(p)
    IN  IF HasClauseWord(t) THEN <<>>
        ELSE IF /\ Len(t) >= 3
                /\ t[1] = BT
                /\ \E q \in 3..Len(t) : t[q] = BT /\ \A j \in 2..(q-1) : t[j] # BT
             THEN <<SubSeq(t, 2, (CHOOSE q \in 3..Len(t) :
                                     t[q] = BT /\ \A j \in 2..(q-1) : t[j] # BT) - 1)>>
             ELSE <<>>

RECURSIVE Entries(_, _)
Entries(ps, k) == IF k > Len(ps) THEN <<>> ELSE Entry(ps[k]) \o Entries(ps, k+1)

\* The fragments put back together with the commas between them.
RECURSIVE Rejoin(_, _)
Rejoin(ps, k) ==
    IF k > Len(ps) THEN <<>>
    ELSE (IF k = 1 THEN <<>> ELSE <<",">>) \o ps[k] \o Rejoin(ps, k+1)

\* Every newline written as the two characters backslash, n.
Escaped(s) ==
    LET two == [j \in 1..(2 * Len(s)) |->
                   LET ch == s[(j + 1) \div 2]
                   IN  IF j % 2 = 1
                       THEN (IF ch = "\n" THEN "\\" ELSE ch)
                       ELSE (IF ch = "\n" THEN "n" ELSE "")]
    IN  SelectSeq(two, LAMBDA ch : ch # "")

HasNewline(s) == \E i \in 1..Len(s) : s[i] = "\n"
HasEscape(s) == \E i \in 1..(Len(s)-1) : s[i] = "\\" /\ s[i+1] = "n"

address_columns ==
  <<<<"a","d","d","r","e","s","s","I","d">>, <<"l","i","n","e","1">>, <<"l","i","n","e","2">>, <<"c","i","t","y">>, <<"s","t","a","t","e">>, <<"c","o","u","n","t","r","y">>,
    <<"p","o","s","t","a","l","C","o","d","e">>, <<"c","r","e","a","t","e","d">>, <<"m","o","d","i","f","i","e","d">>>>

customer_columns ==
  <<<<"c","u","s","t","o","m","e","r","I","d">>, <<"e","n","t","i","t","y","I","d">>, <<"e","n","t","i","t","y","L","o","c","a","t","i","o","n","I","d">>, <<"a","c","t","i","v","e">>, <<"c","o","d","e">>,
    <<"s","e","r","v","i","c","e","R","e","q","u","e","s","t","C","o","d","e">>,
    <<"s","t","a","t","u","s">>,
    <<"c","r","e","a","t","e","d","B","y","E","n","t","i","t","y","E","m","p","l","o","y","e","e","I",
        "d">>,
    <<"c","r","e","a","t","e","d","B","y","I","p","A","d","d","r","e","s","s">>,
    <<"c","r","e","a","t","e","d">>, <<"m","o","d","i","f","i","e","d">>>>

-----------------------------------------------------------------------------
(* The properties                                                          *)

\* C1: on every statement of the expected shape the call returns exactly the
\* names of the statement's column definitions, in source order.
C1_ExactColumns ==
    (pc = "returned" /\ WellFormed(stmt)) => result = ColumnNames(stmt)

\* C2: a PRIMARY KEY or UNIQUE KEY clause adds no entry: a column the clause
\* lists is in the result as often as the statement defines it.
C2_KeyClauseAddsNothing ==
    (pc = "returned" /\ WellFormed(stmt)) =>
        \A x \in KeyColumns(stmt) : Count(result, x) = Count(ColumnNames(stmt), x)

\* C3: when the normalised text holds no CREATE TABLE ... ENGINE span, the
\* search finds nothing and the call returns the empty list.
C3_NoSpanEmptyList ==
    (Returned /\ ~HasSpan(content)) => (match = None /\ result = <<>>)

C3_Witness ==
    /\ pc = "returned"
    /\ ~HasSpan(content)
    /\ Heads[stmt.head].wf
    /\ ~Tails[stmt.tail].wf
    /\ Len(stmt.defs) >= 1
    /\ Defs[stmt.defs[1]].kind = "column"
    /\ result = <<>>

\* The fragments that yield a name, by position.
Survivors ==
    {k \in 1..Len(parts) :
        ~is_constraint(strip(parts[k])) /\ re_match(strip(parts[k])) # None}

\* C5: the result holds one entry per surviving fragment, in fragment order,
\* equal names included: the n-th surviving fragment gives the n-th entry.
C5_FragmentOrder ==
    Returned =>
        /\ Len(result) = Cardinality(Survivors)
        /\ \A k \in Survivors :
              result[Cardinality({j \in Survivors : j <= k})]
                  = re_match(strip(parts[k])).group1

C5_Witness ==
    /\ pc = "returned"
    /\ Len(parts) > 2
    /\ Len(result) = 2
    /\ result[1] = result[2]

\* C6: on the Customer sample the call returns the 11 column names in order.
C6_CustomerSample ==
    pc = "done" => (sql_content = customer_sql /\ result = customer_columns)

C6_Witness ==
    /\ pc = "done"
    /\ Len(parts) = Len(customer_columns) + 3
    /\ columns = result
    /\ Len(stdout[2][2]) < Len(result)

\* C7: on the Address sample the call returns the 9 column names in order.
C7_AddressSample ==
    pc = "customer" => (sql_content = address_sql /\ result = address_columns)

C7_Witness ==
    /\ pc = "customer"
    /\ Len(parts) = Len(address_columns) + 1
    /\ columns = result
    /\ stdout[1][2] = result

\* C8 as stated: the body split into fragments runs from the opening
\* parenthesis after the table name to the last closing parenthesis that is
\* followed by optional white space and ENGINE.
C8_BodyToLastClose ==
    (Returned /\ match # None) =>
        match.group2 = SubSeq(content, match.open + 1, Max(CloseEngines(content)) - 1)

\* C8 as amended: the body runs from the opening parenthesis after the table
\* name to the first closing parenthesis, at least one character further on,
\* that is followed by optional white space and ENGINE; the fragments are
\* that body cut at its commas.
C8_BodyToFirstClose ==
    (Returned /\ match # None) =>
        LET o == match.open
            e == match.close
        IN  /\ Reads(content, match.start, <<"C","R","E","A","T","E"," ","T","A","B","L","E">>)
            /\ content[o] = "("
            /\ \E t2 \in 1..(o-1) :
                  /\ content[t2] = BT
                  /\ Blank(content, t2+1, o-1)
                  /\ match.group1 = SubSeq(content, t2 - Len(match.group1), t2 - 1)
            /\ e >= o + 2
            /\ e \in CloseEngines(content)
            /\ \A e2 \in (o+2)..(e-1) : e2 \notin CloseEngines(content)
            /\ match.group2 = SubSeq(content, o+1, e-1)
            /\ Rejoin(parts, 1) = match.group2
            /\ \A k \in 1..Len(parts) : \A q \in 1..Len(parts[k]) : parts[k][q] # ","

C8_Witness ==
    /\ pc = "returned"
    /\ match # None
    /\ Cardinality(CloseEngines(content)) >= 2
    /\ \E q \in 1..Len(match.group2) : match.group2[q] = ")"

\* C9: each fragment, trimmed, contributes nothing when its upper-cased text
\* holds a clause word, and otherwise its leading backtick-quoted identifier
\* when it starts with one and nothing when it does not.
C9_FragmentEntries ==
    Returned => result = Entries(parts, 1)

C9_Witness ==
    /\ pc = "returned"
    /\ match # None
    /\ Len(result) = 1
    /\ \E k \in 1..Len(parts) :
          /\ Trim(parts[k]) # <<>>
          /\ Trim(parts[k])[1] = BT
          /\ HasClauseWord(Trim(parts[k]))
          /\ \A w \in ClauseWords : ~contains(Trim(parts[k]), w)
    /\ \E k \in 1..Len(parts) : parts[k] # Trim(parts[k]) /\ Entry(parts[k]) # <<>>

\* C10: no escape is left in the normalised text, and a text with real
\* newlines and no escape gives the same text and the same result when every
\* newline is written as the escape.
C10_EscapedNewlines ==
    Returned =>
        /\ ~HasEscape(content)
        /\ (HasNewline(sql_content) /\ ~HasEscape(sql_content)) =>
              /\ replace(Escaped(sql_content)) = content
              /\ extract_columns_from_sql(Escaped(sql_content)) = result

C10_Witness ==
    /\ pc = "returned"
    /\ HasNewline(sql_content)
    /\ ~HasEscape(sql_content)
    /\ \E i \in 1..Len(stmt.defs) : HasNewline(Defs[stmt.defs[i]].text)
    /\ HasNewline(Heads[stmt.head].text)
    /\ Len(result) = 2

=============================================================================
